---- MODULE Spec2Model ----
(***************************************************************************)
(* Bank Nifty OI monitor (banknifty_oi_monitor.py): the persisted baseline *)
(* record, the per-contract lifecycle NONE -> WATCH -> EXECUTED driven by  *)
(* scan(), the conviction score and the daily signal selector.             *)
(*                                                                         *)
(* One scan() invocation is one action.  Percentages are kept exact as a   *)
(* fraction [num, den] (value num/den*100) and compared by cross           *)
(* multiplication; thresholds are written in hundredths of a percent.      *)
(* Times of day are minutes since midnight (IST).                          *)
(***************************************************************************)
EXTENDS Integers, Sequences, FiniteSets, TLC

\* ================= CONFIG (lines 10-43) =================
MIN_BASE_OI == 2000
STRIKE_RANGE == 200
WATCH_OI_PCT == 120
EXEC_OI_PCT == 200
\* SPOT_MOVE_PCT = 0.3, in hundredths of a percent
SPOT_MOVE_PCT_H == 30
\* VOL_MULTIPLIER = 1.5, in tenths
VOL_MULTIPLIER_X10 == 15
OI_BOTH_SIDES_AVOID == 180
PREMIUM_MAX_RISE == 8
\* MIN_DECLINE_PCT = -1.5, in hundredths of a percent
MIN_DECLINE_PCT_H == -150
\* TIME_FILTER_START = 09:45, TIME_FILTER_END = 15:00, BN_ENTRY_TIME = 10:15
TIME_FILTER_START == 585
TIME_FILTER_END == 900
BN_ENTRY_TIME == 615
MAX_SIGNALS_PER_DAY == 3
MAX_WATCH_PER_DAY == 3
SCORE_IMPROVEMENT_THRESHOLD == 10

\* CONVICTION_MODE defaults to BALANCED; unknown modes fall back to 90.
CONVICTION_MODE == "BALANCED"

CONVICTION_THRESHOLDS(mode) ==
    CASE mode = "STRICT" -> 110
      [] mode = "BALANCED" -> 90
      [] mode = "AGGRESSIVE" -> 70
      [] OTHER -> 90

MIN_CONVICTION_SCORE_BASE == CONVICTION_THRESHOLDS(CONVICTION_MODE)

\* Python's None for date, day_open and first_exec_time (dates, spot prices
\* and times of day are all positive).
None == 0

\* ================= BOUNDS OF THE MODEL =================
\* Calendar days the monitor runs over.
MaxDays == 2
\* The last calendar day of the expiry list, as a day number.
ExpiryDay == 12
\* Invocation times of day d (a fixed schedule).  Odd days: before the
\* trading window, in the window before the entry time, twice after it,
\* after the window.  Even days: before the window, twice in the window
\* before the entry time, once after it, after the window.
Times(d) ==
    IF d % 2 = 1 THEN <<570, 600, 630, 660, 905>> ELSE <<570, 590, 605, 630, 905>>
Strikes == {50000, 50100}
Opts == {"CE", "PE"}
Keys == Opts \X Strikes
\* Chain order of the option-chain rows.
KeyOrder == <<<<"CE", 50000>>, <<"PE", 50000>>, <<"CE", 50100>>, <<"PE", 50100>>>>
SpotVals == {49800, 50000}
\* The quotes a chain row may carry.
Quotes ==
    { [oi |-> 1000, ltp |-> 100, vol |-> 100],
      [oi |-> 2000, ltp |-> 100, vol |-> 100],
      [oi |-> 5700, ltp |-> 100, vol |-> 300],
      [oi |-> 6000, ltp |-> 100, vol |-> 300],
      [oi |-> 6000, ltp |-> 120, vol |-> 300] }
\* A snapshot: the rows of the chain that survive the expiry filter, by key.
\* In the specification Spec the chain carries strike 50000 only.
Snapshots == UNION { [S -> Quotes] : S \in SUBSET (Opts \X {50000}) }
\* In the specification WideSpec the chain carries both strikes, on both
\* sides, with the OI at the baseline level or three times it.
WideSpotVals == {49900, 50100}
WideQuotes ==
    { [oi |-> 2000, ltp |-> 100, vol |-> 100],
      [oi |-> 6000, ltp |-> 100, vol |-> 300] }
WideSnapshots == [Keys -> WideQuotes]

VARIABLES
    disk,        \* BASELINE_FILE: [kind, b: the stored record]; kind is
                 \* "absent", "ok", "bad_json" (text that is not JSON, such
                 \* as a truncated write) or "bad_bytes" (bytes that are not
                 \* text in the file's encoding)
    today,       \* now_ist().date(), a day number
    slot,        \* how many invocations of today's schedule have run
    telegram,    \* alerts sent for the stored date: [watch: Keys -> Nat,
                 \* exec: the execution alerts in the order sent]
    lifecycle,   \* per tracked key, the values entry["state"] was given today
    inflight,    \* a second invocation of scan() that overlaps the scheduled
                 \* ones: [kind: "none" | "loaded" | "done", b: the record it
                 \* holds in memory, spot, now]
    scored,      \* calculate_conviction_score taken on its own (specification
                 \* ScoreSpec): [bd: the buildup, atm, changes:
                 \* strike_oi_changes, done, score, components]
    expiry_phase \* the expiry-phase decision of lines 614-626 taken on its
                 \* own (specification PhaseSpec): [mode: the CONVICTION_MODE
                 \* of the process, days_to_expiry, min_score]

vars == <<disk, today, slot, telegram, lifecycle, inflight, expiry_phase, scored>>

\* ================= HELPERS =================
Abs(x) == IF x < 0 THEN -x ELSE x

Frac(n, d) == [num |-> n, den |-> d]

\* f.num/f.den*100 >= h/100, <= h/100 (den > 0)
PctGE(f, h) == f.num * 10000 >= h * f.den
PctLE(f, h) == f.num * 10000 <= h * f.den
PctLT(f, h) == f.num * 10000 < h * f.den

\* The value of a singleton set: {F(x) : x \in {e}} evaluates e once.
TheOnly(S) == CHOOSE x \in S : TRUE

OppOpt(opt) == IF opt = "CE" THEN "PE" ELSE "CE"

\* round(spot / 100) * 100 with Python's round-half-to-even
Atm(spot) ==
    LET q == spot \div 100
        r == spot % 100
        n == IF r < 50 THEN q
             ELSE IF r > 50 THEN q + 1
             ELSE IF q % 2 = 0 THEN q ELSE q + 1
    IN n * 100

\* A mutant of is_trading_window: every time of day is inside the window.
is_trading_window_always(t) == TRUE

is_trading_window(t) == TIME_FILTER_START <= t /\ t <= TIME_FILTER_END

\* A mutant of after_bn_entry_time: no wait for the entry time.
after_bn_entry_time_always(t) == TRUE

after_bn_entry_time(t) == t >= BN_ENTRY_TIME

\* ================= BASELINE =================
EmptyData == [k \in {} |-> 0]

create_empty_baseline ==
    [ date |-> None,
      started |-> FALSE,
      day_open |-> None,
      data |-> EmptyData,
      signals_today |-> 0,
      watch_today |-> 0,
      daily_signals |-> <<>> ]

\* lines 159-166: a missing file and a json.JSONDecodeError give the empty
\* record
load_baseline(d) == IF d.kind = "ok" THEN d.b ELSE create_empty_baseline

\* lines 161-163: reading bytes that do not decode raises UnicodeDecodeError
\* from f.read(), which is not a json.JSONDecodeError and is not caught here
load_raises(d) == d.kind = "bad_bytes"

save_baseline(b) == [kind |-> "ok", b |-> b]

\* Fills the fields an older file format lacks (lines 183-218).
migrate_entry(e) ==
    LET e1 == IF "state" \in DOMAIN e THEN e ELSE e @@ [state |-> "NONE"]
        e2 == IF "first_exec_time" \in DOMAIN e1 THEN e1
              ELSE e1 @@ [first_exec_time |-> None]
        e3 == IF "scan_count" \in DOMAIN e2 THEN e2 ELSE e2 @@ [scan_count |-> 0]
        e4 == IF "prev_oi" \in DOMAIN e3 THEN e3
              ELSE e3 @@ [prev_oi |-> IF "base_oi" \in DOMAIN e3 THEN e3.base_oi ELSE 0]
    IN IF "decline_streak" \in DOMAIN e4 THEN e4 ELSE e4 @@ [decline_streak |-> 0]

migrate_baseline_if_needed(b) ==
    LET b1 == IF "day_open" \in DOMAIN b THEN b ELSE b @@ [day_open |-> None]
        b2 == IF "signals_today" \in DOMAIN b1 THEN b1 ELSE b1 @@ [signals_today |-> 0]
        b3 == IF "watch_today" \in DOMAIN b2 THEN b2 ELSE b2 @@ [watch_today |-> 0]
        b4 == IF "daily_signals" \in DOMAIN b3 THEN b3 ELSE b3 @@ [daily_signals |-> <<>>]
    IN IF "data" \in DOMAIN b4
       THEN [b4 EXCEPT !.data = [k \in DOMAIN b4.data |-> migrate_entry(b4.data[k])]]
       ELSE b4

\* A mutant of reset_day: it resets whatever date is stored.
reset_day_always(b, d) ==
    [ b EXCEPT !.date = d, !.started = FALSE, !.day_open = None,
               !.data = EmptyData, !.signals_today = 0, !.watch_today = 0,
               !.daily_signals = <<>> ]

\* reset_day: the record it returns; it is saved when the date differed.
reset_day(b, d) ==
    IF b.date # d
    THEN [ b EXCEPT !.date = d, !.started = FALSE, !.day_open = None,
                    !.data = EmptyData, !.signals_today = 0, !.watch_today = 0,
                    !.daily_signals = <<>> ]
    ELSE b

\* ================= EXPIRY =================
\* get_monthly_expiry: days left to the nearest expiry not in the past
\* (-1: no valid expiry).
get_monthly_expiry(d) == IF ExpiryDay - d >= 0 THEN ExpiryDay - d ELSE -1

\* The minimum score by expiry phase (lines 614-626).
min_score_by_phase(base, days_to_expiry) ==
    IF days_to_expiry > 20 THEN 110
    ELSE IF days_to_expiry > 10 THEN base
    ELSE IF days_to_expiry > 4 THEN 100
    ELSE 120

MIN_CONVICTION_SCORE(days_to_expiry) ==
    min_score_by_phase(MIN_CONVICTION_SCORE_BASE, days_to_expiry)

\* The premium tolerance by spot move (lines 628-642); move is a fraction.
PREMIUM_TOLERANCE(move) ==
    LET a == Frac(Abs(move.num), move.den)
    IN IF PctGE(a, 50) THEN 15
       ELSE IF PctGE(a, 30) THEN 10
       ELSE PREMIUM_MAX_RISE

\* ================= CONVICTION SCORING =================
calculate_buildup_time(entry, current_time) ==
    IF entry.first_exec_time # None
    THEN IF current_time - entry.first_exec_time > 0
         THEN current_time - entry.first_exec_time ELSE 0
    ELSE 0

\* strike_oi_changes.get(strike, {}).get(opt, 0)
ChangeOf(changes, opt, strike) ==
    IF <<opt, strike>> \in DOMAIN changes THEN changes[<<opt, strike>>] ELSE Frac(0, 1)

check_adjacent_cluster(strike, opt, changes, exec_threshold) ==
    LET offsets == {-200, -100, 100, 200}
        same == { o \in offsets :
                    PctGE(ChangeOf(changes, opt, strike + o), exec_threshold * 70) }
        opp == { o \in offsets :
                    PctLT(ChangeOf(changes, OppOpt(opt), strike + o), -500) }
    IN [adjacent_same_side |-> Cardinality(same),
        adjacent_opp_declining |-> Cardinality(opp)]

StrikeQualityPts(strike, atm) ==
    LET d == Abs(strike - atm)
    IN IF d <= 50 THEN 30 ELSE IF d <= 100 THEN 20 ELSE IF d <= 150 THEN 10 ELSE 0

\* vm is vol / base_vol as a fraction
VolumePts(vm) ==
    IF vm.num >= 3 * vm.den THEN 20
    ELSE IF vm.num >= 2 * vm.den THEN 10
    ELSE IF vm.num * 10 >= 15 * vm.den THEN 5
    ELSE 0

VelocityPts(mins) ==
    IF mins <= 30 THEN 25 ELSE IF mins <= 60 THEN 15 ELSE IF mins <= 120 THEN 5 ELSE 0

DeclinePts(opp_decline) ==
    LET a == Frac(Abs(opp_decline.num), opp_decline.den)
    IN IF PctGE(a, 1000) THEN 25
       ELSE IF PctGE(a, 500) THEN 15
       ELSE IF PctGE(a, 150) THEN 5
       ELSE 0

DeclineStreakPts(decline_streak) ==
    IF decline_streak >= 3 THEN 20 ELSE IF decline_streak >= 2 THEN 10 ELSE 0

\* A mutant of SpotPts: a flat spot counts as weakly aligned.
SpotPts_flat(opt, move) ==
    IF opt = "CE"
    THEN IF PctLE(move, -50) THEN 30
         ELSE IF PctLE(move, -30) THEN 20
         ELSE IF move.num <= 0 THEN 10
         ELSE -20
    ELSE IF PctGE(move, 50) THEN 30
         ELSE IF PctGE(move, 30) THEN 20
         ELSE IF move.num >= 0 THEN 10
         ELSE -20

SpotPts(opt, move) ==
    IF opt = "CE"
    THEN IF PctLE(move, -50) THEN 30
         ELSE IF PctLE(move, -30) THEN 20
         ELSE IF move.num < 0 THEN 10
         ELSE -20
    ELSE IF PctGE(move, 50) THEN 30
         ELSE IF PctGE(move, 30) THEN 20
         ELSE IF move.num > 0 THEN 10
         ELSE -20

SustainabilityPts(scan_count) ==
    IF scan_count >= 3 THEN 15 ELSE IF scan_count >= 2 THEN 10 ELSE 0

ClusterPts(c) ==
    IF c.adjacent_same_side >= 3 \/ c.adjacent_opp_declining >= 2 THEN 20
    ELSE IF c.adjacent_same_side >= 2 \/ c.adjacent_opp_declining >= 1 THEN 10
    ELSE 0

PremiumBehaviorPts(ltp_change) ==
    IF PctLE(ltp_change, -500) THEN 15
    ELSE IF ltp_change.num <= 0 THEN 10
    ELSE IF PctLE(ltp_change, 500) THEN 5
    ELSE IF PctLE(ltp_change, PREMIUM_MAX_RISE * 100) THEN 0
    ELSE -10

calculate_conviction_score(bd, atm, changes) ==
    StrikeQualityPts(bd.strike, atm)
    + VolumePts(bd.vol_multiplier)
    + VelocityPts(bd.buildup_time_mins)
    + DeclinePts(bd.opp_decline)
    + DeclineStreakPts(bd.decline_streak)
    + SpotPts(bd.opt_type, bd.spot_move)
    + SustainabilityPts(bd.scan_count)
    + ClusterPts(check_adjacent_cluster(bd.strike, bd.opt_type, changes, bd.exec_threshold))
    + PremiumBehaviorPts(bd.ltp_change)

\* The components dict the function returns beside the score.
conviction_components(bd, atm, changes) ==
    [ strike_quality_pts |-> StrikeQualityPts(bd.strike, atm),
      volume_pts |-> VolumePts(bd.vol_multiplier),
      velocity_pts |-> VelocityPts(bd.buildup_time_mins),
      decline_pts |-> DeclinePts(bd.opp_decline),
      decline_streak_pts |-> DeclineStreakPts(bd.decline_streak),
      spot_pts |-> SpotPts(bd.opt_type, bd.spot_move),
      sustainability_pts |-> SustainabilityPts(bd.scan_count),
      cluster_pts |-> ClusterPts(check_adjacent_cluster(bd.strike, bd.opt_type, changes,
                                                        bd.exec_threshold)),
      premium_behavior_pts |-> PremiumBehaviorPts(bd.ltp_change) ]

Tier(score) ==
    IF score >= 120 THEN "PREMIUM"
    ELSE IF score >= 90 THEN "HIGH"
    ELSE IF score >= 60 THEN "MEDIUM"
    ELSE "LOW"

\* ================= DAILY SIGNAL MANAGEMENT =================
RECURSIVE MinScore(_)
MinScore(sigs) ==
    IF Len(sigs) = 1 THEN sigs[1].score
    ELSE LET m == MinScore(Tail(sigs))
         IN IF sigs[1].score < m THEN sigs[1].score ELSE m

\* A mutant of should_send_signal: at the cap it accepts a score that beats
\* the weakest by exactly the margin.
should_send_signal_ge(b, new_signal_score) ==
    IF b.signals_today < MAX_SIGNALS_PER_DAY
    THEN [send |-> TRUE, reason |-> "UNDER_LIMIT"]
    ELSE IF b.daily_signals = <<>>
    THEN [send |-> TRUE, reason |-> "FIRST_SIGNAL"]
    ELSE IF new_signal_score >= MinScore(b.daily_signals) + SCORE_IMPROVEMENT_THRESHOLD
    THEN [send |-> TRUE, reason |-> "REPLACES_LOWER"]
    ELSE [send |-> FALSE, reason |-> "REJECTED"]

should_send_signal(b, new_signal_score) ==
    IF b.signals_today < MAX_SIGNALS_PER_DAY
    THEN [send |-> TRUE, reason |-> "UNDER_LIMIT"]
    ELSE IF b.daily_signals = <<>>
    THEN [send |-> TRUE, reason |-> "FIRST_SIGNAL"]
    ELSE IF new_signal_score > MinScore(b.daily_signals) + SCORE_IMPROVEMENT_THRESHOLD
    THEN [send |-> TRUE, reason |-> "REPLACES_LOWER"]
    ELSE [send |-> FALSE, reason |-> "REJECTED"]

\* sorted(seq, key=lambda x: x[field], reverse=True): stable, descending
RECURSIVE InsertDesc(_, _, _)
InsertDesc(sorted, x, field) ==
    IF sorted = <<>> THEN <<x>>
    ELSE IF sorted[1][field] >= x[field]
         THEN <<sorted[1]>> \o InsertDesc(Tail(sorted), x, field)
         ELSE <<x>> \o sorted

RECURSIVE SortedDesc(_, _)
SortedDesc(seq, field) ==
    IF seq = <<>> THEN <<>>
    ELSE TheOnly({ InsertDesc(front, seq[Len(seq)], field) :
                     front \in {SortedDesc(SubSeq(seq, 1, Len(seq) - 1), field)} })

\* A mutant of Truncate: the list keeps every entry.
Truncate_none(seq, n) == seq

\* [:n]
Truncate(seq, n) == IF Len(seq) > n THEN SubSeq(seq, 1, n) ELSE seq

\* A mutant of record_signal: the new record is appended without sorting.
record_signal_unsorted(b, signal_data, t) ==
    [ b EXCEPT !.signals_today = b.signals_today + 1,
               !.daily_signals =
                   Truncate(Append(b.daily_signals,
                                   [ time |-> t,
                                     strike |-> signal_data.strike,
                                     opt_type |-> signal_data.opt_type,
                                     score |-> signal_data.conviction_score,
                                     tier |-> signal_data.tier ]),
                            MAX_SIGNALS_PER_DAY) ]

record_signal(b, signal_data, t) ==
    [ b EXCEPT !.signals_today = b.signals_today + 1,
               !.daily_signals =
                   Truncate(SortedDesc(Append(b.daily_signals,
                                              [ time |-> t,
                                                strike |-> signal_data.strike,
                                                opt_type |-> signal_data.opt_type,
                                                score |-> signal_data.conviction_score,
                                                tier |-> signal_data.tier ]),
                                       "score"),
                            MAX_SIGNALS_PER_DAY) ]

\* ================= MAIN SCAN: ONE CHAIN ROW =================
new_entry(r) ==
    [ base_oi |-> r.oi,
      base_ltp |-> r.ltp,
      base_vol |-> r.vol,
      prev_oi |-> r.oi,
      state |-> "NONE",
      first_exec_time |-> None,
      scan_count |-> 0,
      decline_streak |-> 0 ]

Put(f, k, v) == [x \in DOMAIN f \cup {k} |-> IF x = k THEN v ELSE f[x]]

\* A mutant of setdefault: the baseline is taken again on every scan.
setdefault_overwrite(data, key, r) ==
    IF key \in DOMAIN data
    THEN [ data[key] EXCEPT !.base_oi = r.oi, !.base_ltp = r.ltp, !.base_vol = r.vol ]
    ELSE new_entry(r)

\* baseline["data"].setdefault(key, {...}): the entry in use for the row
setdefault(data, key, r) ==
    IF key \in DOMAIN data THEN data[key] ELSE new_entry(r)

\* A mutant of below_floor: the floor is not enforced.
below_floor_never(entry) == FALSE

\* line 709
below_floor(entry) == entry.base_oi < MIN_BASE_OI

\* A mutant of watch_fires: the lifecycle state is not looked at.
watch_fires_any_state(oi_pct, entry) == PctGE(oi_pct, WATCH_OI_PCT * 100)

\* A mutant of enter_watch: the state advances only with the notification.
enter_watch_if_notified(entry, notify) ==
    IF notify THEN [entry EXCEPT !.state = "WATCH"] ELSE entry

\* line 744: the state advances whether or not the WATCH alert was sent
enter_watch(entry, notify) == [entry EXCEPT !.state = "WATCH"]

\* line 717
watch_fires(oi_pct, entry) ==
    PctGE(oi_pct, WATCH_OI_PCT * 100) /\ entry.state = "NONE"

\* A mutant of conflicted: one side past the threshold is never a conflict.
conflicted_never(changes, strike) == FALSE

\* lines 719-721 and 779-781
conflicted(changes, strike) ==
    /\ PctGE(ChangeOf(changes, "CE", strike), OI_BOTH_SIDES_AVOID * 100)
    /\ PctGE(ChangeOf(changes, "PE", strike), OI_BOTH_SIDES_AVOID * 100)

\* A mutant of exec_eligible: a contract already EXECUTED is a candidate again.
exec_eligible_again(entry, is_aggressive_writing) ==
    is_aggressive_writing /\ entry.state # "NONE"

\* lines 763-769: past the EXECUTED guard and the WATCH condition
exec_eligible(entry, is_aggressive_writing) ==
    entry.state # "EXECUTED" /\ is_aggressive_writing /\ entry.state = "WATCH"

\* A mutant of opp_prev_oi: the covering check compares with the baseline.
opp_prev_oi_base(opp_entry) == opp_entry.base_oi

\* line 799
opp_prev_oi(opp_entry) == opp_entry.prev_oi

\* lines 800-801
opp_decline_pct(opp_current_oi, prev) ==
    IF prev > 0 THEN Frac(opp_current_oi - prev, prev) ELSE Frac(0, 1)

\* A mutant of is_covering: the opposite side is never asked to decline.
is_covering_always(opp_current_oi, prev) == TRUE

is_covering(opp_current_oi, prev) ==
    opp_current_oi < prev /\ PctLE(opp_decline_pct(opp_current_oi, prev), MIN_DECLINE_PCT_H)

\* lines 747-760
\* A mutant of track_buildup: the count is kept when the OI falls back.
track_buildup_sticky(entry, above, current_time) ==
    IF above
    THEN IF entry.first_exec_time = None
         THEN [entry EXCEPT !.first_exec_time = current_time, !.scan_count = 1]
         ELSE [entry EXCEPT !.scan_count = entry.scan_count + 1]
    ELSE entry

track_buildup(entry, above, current_time) ==
    IF above
    THEN IF entry.first_exec_time = None
         THEN [entry EXCEPT !.first_exec_time = current_time, !.scan_count = 1]
         ELSE [entry EXCEPT !.scan_count = entry.scan_count + 1]
    ELSE IF entry.first_exec_time # None
         THEN [entry EXCEPT !.first_exec_time = None, !.scan_count = 0]
         ELSE entry

\* A mutant of seen_by_execution: the execution step sees the state the
\* contract had when the scan began.
seen_by_execution_stale(entry0, entry2) == [entry2 EXCEPT !.state = entry0.state]

\* lines 763-769 read the same entry object that lines 744-760 wrote
seen_by_execution(entry0, entry2) == entry2

\* The body of the main processing loop for one row (lines 687-862).
\* acc: [data, watch_today, updated, ce_buildups, pe_buildups, watch_sent, log]
\* ctx: [rows, atm, spot_move, tolerance, changes, now, min_score]

\* A mutant of mark_executed: the state is left as it was.
mark_executed_not(entry) == entry

\* line 861, before the dispatch loop of lines 896-938
mark_executed(entry) == [entry EXCEPT !.state = "EXECUTED"]

\* lines 762-862, after the WATCH and buildup-time steps left the row's entry
\* as entry2 in acc2
TryExecute(acc2, key, entry0, entry2, ctx) ==
    LET opt == key[1]
        strike == key[2]
        r == ctx.rows[key]
        oi_pct == Frac(r.oi - entry0.base_oi, entry0.base_oi)
        ltp_change_pct == IF entry0.base_ltp > 0
                          THEN Frac(r.ltp - entry0.base_ltp, entry0.base_ltp)
                          ELSE Frac(0, 1)
        vol_multiplier == IF entry0.base_vol > 0 THEN Frac(r.vol, entry0.base_vol)
                          ELSE Frac(1, 1)
        above == PctGE(oi_pct, EXEC_OI_PCT * 100)
        is_aggressive_writing == above /\ PctLE(ltp_change_pct, ctx.tolerance * 100)
        abs_move == Frac(Abs(ctx.spot_move.num), ctx.spot_move.den)
        opp_key == <<OppOpt(opt), strike>>
        opp_entry == acc2.data[opp_key]
        opp_current_oi == IF opp_key \in DOMAIN ctx.rows THEN ctx.rows[opp_key].oi ELSE 0
        prev == opp_prev_oi(opp_entry)
        streak == opp_entry.decline_streak + 1
        buildup_data ==
            [ strike |-> strike,
              opt_type |-> opt,
              oi_pct |-> oi_pct,
              ltp_change |-> ltp_change_pct,
              vol_multiplier |-> vol_multiplier,
              opp_decline |-> opp_decline_pct(opp_current_oi, prev),
              decline_streak |-> streak,
              buildup_time_mins |-> calculate_buildup_time(entry2, ctx.now),
              scan_count |-> entry2.scan_count,
              spot_move |-> ctx.spot_move,
              exec_threshold |-> EXEC_OI_PCT ]
    IN IF ~exec_eligible(entry2, is_aggressive_writing) THEN acc2
       ELSE IF ~after_bn_entry_time(ctx.now) THEN acc2
       ELSE IF ~PctGE(abs_move, SPOT_MOVE_PCT_H)
               \/ vol_multiplier.num * 10 < VOL_MULTIPLIER_X10 * vol_multiplier.den
            THEN acc2
       ELSE IF conflicted(ctx.changes, strike) THEN acc2
       ELSE IF opp_key \notin DOMAIN acc2.data THEN acc2
       ELSE IF opp_current_oi = 0 THEN acc2
       ELSE IF ~is_covering(opp_current_oi, prev)
            THEN [ acc2 EXCEPT !.data[opp_key].decline_streak = 0, !.updated = TRUE ]
       ELSE TheOnly({
              IF score < ctx.min_score
              THEN [ acc2 EXCEPT !.data[opp_key].decline_streak = streak,
                                 !.updated = TRUE ]
              ELSE [ acc2 EXCEPT
                       !.data[opp_key].decline_streak = streak,
                       !.updated = TRUE,
                       !.data[key] = mark_executed(@),
                       !.log[key] = Append(@, "EXECUTED"),
                       !.ce_buildups =
                           IF opt = "CE"
                           THEN Append(@, [ strike |-> strike, opt_type |-> opt,
                                            conviction_score |-> score,
                                            tier |-> Tier(score) ])
                           ELSE @,
                       !.pe_buildups =
                           IF opt = "CE" THEN @
                           ELSE Append(@, [ strike |-> strike, opt_type |-> opt,
                                            conviction_score |-> score,
                                            tier |-> Tier(score) ]) ]
              : score \in {calculate_conviction_score(buildup_data, ctx.atm, ctx.changes)} })

\* lines 712-760: the WATCH step and the buildup-time step on the row's entry
WatchAndTrack(acc, key, entry0, ctx) ==
    LET strike == key[2]
        r == ctx.rows[key]
        oi_pct == Frac(r.oi - entry0.base_oi, entry0.base_oi)
        fires == watch_fires(oi_pct, entry0)
        too_far_otm == Abs(strike - ctx.atm) > 150
        watch_limit_hit == acc.watch_today >= MAX_WATCH_PER_DAY
        notify == fires /\ ~conflicted(ctx.changes, strike) /\ ~too_far_otm
                  /\ ~watch_limit_hit
        entry1 == IF fires THEN enter_watch(entry0, notify) ELSE entry0
        above == PctGE(oi_pct, EXEC_OI_PCT * 100)
    IN TheOnly({
         [ acc EXCEPT
             !.data = Put(acc.data, key, entry2),
             !.watch_today = IF notify THEN @ + 1 ELSE @,
             !.watch_sent = IF notify THEN @ \cup {key} ELSE @,
             !.log = IF key \in DOMAIN acc.log
                     THEN IF fires THEN [@ EXCEPT ![key] = Append(@, "WATCH")] ELSE @
                     ELSE Put(@, key, IF fires THEN <<"NONE", "WATCH">> ELSE <<"NONE">>),
             !.updated = @ \/ fires \/ entry2 # entry1 ]
         : entry2 \in {track_buildup(entry1, above, ctx.now)} })

ProcessRow(acc, key, ctx) ==
    TheOnly({
      IF below_floor(entry0)
      THEN [ acc EXCEPT !.data = Put(acc.data, key, entry0),
                        !.log = IF key \in DOMAIN acc.log THEN @
                                ELSE Put(@, key, <<"NONE">>) ]
      ELSE TheOnly({ TryExecute(acc2, key, entry0,
                                seen_by_execution(entry0, acc2.data[key]), ctx)
                     : acc2 \in {WatchAndTrack(acc, key, entry0, ctx)} })
      : entry0 \in {setdefault(acc.data, key, ctx.rows[key])} })

\* ================= MAIN SCAN =================
\* lines 645-650: the rows within STRIKE_RANGE of the ATM, on 100-point strikes
FilterRows(snapshot, atm) ==
    [ k \in { x \in DOMAIN snapshot :
                /\ atm - STRIKE_RANGE <= x[2] /\ x[2] <= atm + STRIKE_RANGE
                /\ x[2] % 100 = 0 }
      |-> snapshot[k] ]

\* lines 656-680: OI% change against the baseline, per tracked key whose
\* base_oi is at least the floor
strike_oi_changes(data, rows) ==
    [ k \in { x \in DOMAIN rows : x \in DOMAIN data /\ data[x].base_oi >= MIN_BASE_OI }
      |-> Frac(rows[k].oi - data[k].base_oi, data[k].base_oi) ]

RECURSIVE MainLoop(_, _, _)
MainLoop(acc, order, ctx) ==
    IF order = <<>> THEN acc
    ELSE IF order[1] \in DOMAIN ctx.rows
         THEN TheOnly({ MainLoop(a, Tail(order), ctx)
                        : a \in {ProcessRow(acc, order[1], ctx)} })
         ELSE MainLoop(acc, Tail(order), ctx)

\* lines 864-876
\* A mutant of update_prev_oi: executed contracts keep their prev_oi.
update_prev_oi_live(data, rows) ==
    [ k \in DOMAIN data |->
        IF k \in DOMAIN rows /\ data[k].state # "EXECUTED"
        THEN [data[k] EXCEPT !.prev_oi = rows[k].oi] ELSE data[k] ]

update_prev_oi(data, rows) ==
    [ k \in DOMAIN data |->
        IF k \in DOMAIN rows THEN [data[k] EXCEPT !.prev_oi = rows[k].oi] ELSE data[k] ]

\* lines 896-938: out is [b, updated, sent]; sent are the buildups alerted
RECURSIVE SendAlerts(_, _, _)
SendAlerts(out, buildups, t) ==
    IF buildups = <<>> THEN out
    ELSE IF should_send_signal(out.b, buildups[1].conviction_score).send
         THEN TheOnly({ SendAlerts(o, Tail(buildups), t)
                        : o \in {[ b |-> record_signal(out.b, buildups[1], t),
                                   updated |-> TRUE,
                                   sent |-> Append(out.sent, buildups[1]) ]} })
         ELSE SendAlerts(out, Tail(buildups), t)

\* lines 628-650: what the rows are judged against in this scan
ScanContext(b, snapshot, spot, t, days_to_expiry) ==
    LET atm == Atm(spot)
        spot_move == IF b.day_open # None THEN Frac(spot - b.day_open, b.day_open)
                     ELSE Frac(0, 1)
    IN [ rows |-> FilterRows(snapshot, atm),
         atm |-> atm,
         spot_move |-> spot_move,
         tolerance |-> PREMIUM_TOLERANCE(spot_move),
         changes |-> strike_oi_changes(b.data, FilterRows(snapshot, atm)),
         now |-> t,
         min_score |-> MIN_CONVICTION_SCORE(days_to_expiry) ]

\* lines 864-938 after the main loop left acc
FinishScan(b, acc, ctx) ==
    TheOnly({ [ b |-> out.b,
                updated |-> out.updated,
                watch_sent |-> acc.watch_sent,
                sent |-> out.sent,
                log |-> acc.log ]
              : out \in { SendAlerts(
                            [ b |-> [ b EXCEPT !.data = update_prev_oi(acc.data, ctx.rows),
                                               !.watch_today = acc.watch_today ],
                              updated |-> acc.updated \/ DOMAIN ctx.rows # {},
                              sent |-> <<>> ],
                            SortedDesc(acc.ce_buildups \o acc.pe_buildups,
                                       "conviction_score"),
                            ctx.now) } })

\* lines 682-938 under the scan's context ctx
ScanRows(b, ctx, log) ==
    TheOnly({ FinishScan(b, acc, ctx)
              : acc \in { MainLoop([ data |-> b.data,
                                     watch_today |-> b.watch_today,
                                     updated |-> FALSE,
                                     ce_buildups |-> <<>>,
                                     pe_buildups |-> <<>>,
                                     watch_sent |-> {},
                                     log |-> log ],
                                   KeyOrder, ctx) } })

\* The scan from the option chain on (lines 602-945), on the baseline b in
\* memory: [b, updated, watch_sent, sent, log].
ScanBody(b, snapshot, spot, t, days_to_expiry, log) ==
    TheOnly({ ScanRows(b, ctx, log)
              : ctx \in {ScanContext(b, snapshot, spot, t, days_to_expiry)} })

\* ---- the scan up to the option chain (lines 542-600) ----
NoAlerts == [watch |-> [k \in Keys |-> 0], exec |-> <<>>]

Now == Times(today)[slot + 1]

\* load_baseline, reset_day and migrate_baseline_if_needed with their saves
Loaded == load_baseline(disk)
IsNewDay == Loaded.date # today
AfterReset == reset_day(Loaded, today)
DiskAfterReset == IF IsNewDay THEN save_baseline(AfterReset) ELSE disk
Migrated == migrate_baseline_if_needed(AfterReset)
DiskAfterMigrate == IF Migrated # AfterReset THEN save_baseline(Migrated) ELSE DiskAfterReset
\* The alerts and lifecycle record are kept per stored date.
TelegramAtStart == IF IsNewDay THEN NoAlerts ELSE telegram
LifecycleAtStart == IF IsNewDay THEN EmptyData ELSE lifecycle
\* lines 551-566: the startup ping, when the spot fetch succeeds
Started == [Migrated EXCEPT !.started = TRUE]
DiskAfterStartup == IF Migrated.started THEN DiskAfterMigrate ELSE save_baseline(Started)
\* A mutant of WithDayOpen: every successful spot fetch is taken as the open.
WithDayOpen_always(spot) == [Started EXCEPT !.day_open = spot]

\* lines 582-585
WithDayOpen(spot) == IF Started.day_open = None THEN [Started EXCEPT !.day_open = spot]
                     ELSE Started
\* A mutant of DiskAfterDayOpen: the record is saved with the fetched spot as
\* day_open whether or not one was stored.
DiskAfterDayOpen_always(spot) == save_baseline([Started EXCEPT !.day_open = spot])

DiskAfterDayOpen(spot) ==
    IF Started.day_open = None THEN save_baseline(WithDayOpen(spot)) ELSE DiskAfterStartup

\* A scheduled invocation: it takes the next time of the schedule and has
\* nothing to do with an overlapping invocation's memory.
Tick ==
    /\ ~load_raises(disk)
    /\ slot < Len(Times(today))
    /\ slot' = slot + 1
    /\ today' = today
    /\ UNCHANGED <<inflight, expiry_phase, scored>>

\* line 553-556: the spot is unavailable for the startup ping
ScanStartupFailed ==
    /\ Tick
    /\ ~Migrated.started
    /\ disk' = DiskAfterMigrate
    /\ telegram' = TelegramAtStart
    /\ lifecycle' = LifecycleAtStart

\* lines 571-575
ScanOutsideWindow ==
    /\ Tick
    /\ ~is_trading_window(Now)
    /\ disk' = DiskAfterStartup
    /\ telegram' = TelegramAtStart
    /\ lifecycle' = LifecycleAtStart

\* lines 577-580
ScanSpotFailed ==
    /\ Tick
    /\ is_trading_window(Now)
    /\ disk' = DiskAfterStartup
    /\ telegram' = TelegramAtStart
    /\ lifecycle' = LifecycleAtStart

\* lines 589-612: the chain fetch fails, the chain is empty or no expiry is valid
ScanChainFailedWith(spot) ==
    /\ Tick
    /\ is_trading_window(Now)
    /\ disk' = DiskAfterDayOpen(spot)
    /\ telegram' = TelegramAtStart
    /\ lifecycle' = LifecycleAtStart

ScanChainFailed == \E spot \in SpotVals : ScanChainFailedWith(spot)

\* A scan that reaches the main loop (lines 542-945), on the spot and the
\* chain rows the two fetches returned.
\* What lines 602-938 compute from the record of this invocation and the
\* chain it read.
ScanResult(spot, snapshot) ==
    ScanBody(WithDayOpen(spot), snapshot, spot, Now, get_monthly_expiry(today),
             LifecycleAtStart)

\* lines 940-945: the record is saved when the scan changed it.
DiskAfterScan(res, spot) ==
    IF res.updated THEN save_baseline(res.b) ELSE DiskAfterDayOpen(spot)

ScanWith(spot, snapshot) ==
    /\ Tick
    /\ is_trading_window(Now)
    /\ get_monthly_expiry(today) >= 0
    /\ \E start \in {[telegram |-> TelegramAtStart]} :
         \E res \in {ScanResult(spot, snapshot)} :
            /\ disk' = DiskAfterScan(res, spot)
            /\ telegram' =
                 [ watch |-> [k \in Keys |-> start.telegram.watch[k]
                                               + IF k \in res.watch_sent THEN 1 ELSE 0],
                   exec |-> start.telegram.exec \o res.sent ]
            /\ lifecycle' = res.log

ScanComplete ==
    \E spot \in SpotVals, snapshot \in Snapshots \ {EmptyData} : ScanWith(spot, snapshot)

\* The calendar day changes once the day's schedule has run.
NextDay ==
    /\ slot = Len(Times(today))
    /\ today < MaxDays
    /\ today' = today + 1
    /\ slot' = 0
    /\ UNCHANGED <<disk, telegram, lifecycle, inflight, expiry_phase, scored>>

NoOverlap == [kind |-> "none", b |-> create_empty_baseline, spot |-> 0, now |-> 0]

\* No score computed on its own.
NoScore ==
    [ bd |-> [strike |-> 0], atm |-> 0, changes |-> EmptyData, done |-> FALSE,
      score |-> 0, components |-> [spot_pts |-> 0] ]

\* No expiry-phase decision taken yet (days_to_expiry -1: none).
NoPhase(mode) == [mode |-> mode, days_to_expiry |-> -1, min_score |-> 0]

Init ==
    /\ disk = [kind |-> "absent", b |-> create_empty_baseline]
    /\ today = 1
    /\ slot = 0
    /\ telegram = NoAlerts
    /\ lifecycle = EmptyData
    /\ inflight = NoOverlap
    /\ expiry_phase = NoPhase(CONVICTION_MODE)
    /\ scored = NoScore

Next ==
    \/ ScanStartupFailed
    \/ ScanOutsideWindow
    \/ ScanSpotFailed
    \/ ScanChainFailed
    \/ ScanComplete
    \/ NextDay

Spec == Init /\ [][Next]_vars

\* ---- scans of a chain with two strikes ----
\* The same scan() on chains that carry both strikes; the schedule is that of
\* one day.
ScanWide ==
    \E spot \in WideSpotVals, snapshot \in WideSnapshots : ScanWith(spot, snapshot)

WideNext ==
    \/ ScanOutsideWindow
    \/ ScanWide

WideSpec == Init /\ [][WideNext]_vars

\* ---- overlapping invocations ----
\* scan() takes no lock on BASELINE_FILE: an invocation that is waiting for
\* the option chain (safe_api_call retries and sleeps, lines 97-105) holds the
\* record it loaded at line 547 while scheduled invocations run, and saves
\* its own copy at line 942.  The overlapping invocation is split where it
\* waits: up to the chain fetch, and from the chain's arrival on.  Its clock
\* is the time at which it started.
RaceSnapshots == [Opts \X {50000} -> WideQuotes]

ScanRace ==
    \E spot \in SpotVals, snapshot \in RaceSnapshots : ScanWith(spot, snapshot)

\* lines 542-596 of the overlapping invocation
OverlapLoad ==
    /\ inflight.kind = "none"
    /\ ~load_raises(disk)
    /\ slot < Len(Times(today))
    /\ slot' = slot + 1
    /\ today' = today
    /\ UNCHANGED <<expiry_phase, scored>>
    /\ is_trading_window(Now)
    /\ get_monthly_expiry(today) >= 0
    /\ \E spot \in SpotVals :
         /\ disk' = DiskAfterDayOpen(spot)
         /\ inflight' = [kind |-> "loaded", b |-> WithDayOpen(spot),
                          spot |-> spot, now |-> Now]
    /\ telegram' = TelegramAtStart
    /\ lifecycle' = LifecycleAtStart

\* lines 602-945 of the overlapping invocation
OverlapFinish ==
    /\ inflight.kind = "loaded"
    /\ slot' = slot
    /\ today' = today
    /\ inflight' = [NoOverlap EXCEPT !.kind = "done"]
    /\ UNCHANGED <<expiry_phase, scored>>
    /\ \E snapshot \in RaceSnapshots :
         \E res \in {ScanBody(inflight.b, snapshot, inflight.spot, inflight.now,
                              get_monthly_expiry(today), lifecycle)} :
            /\ disk' = IF res.updated THEN save_baseline(res.b) ELSE disk
            /\ telegram' =
                 [ watch |-> [k \in Keys |-> telegram.watch[k]
                                               + IF k \in res.watch_sent THEN 1 ELSE 0],
                   exec |-> telegram.exec \o res.sent ]
            /\ lifecycle' = res.log

RaceNext ==
    \/ ScanOutsideWindow
    \/ ScanRace
    \/ OverlapLoad
    \/ OverlapFinish

RaceSpec == Init /\ [][RaceNext]_vars

\* ---- a damaged baseline file ----
\* The file is damaged between two invocations: what it held is lost.
CorruptFile ==
    /\ disk.kind = "ok"
    /\ \E kind \in {"bad_json", "bad_bytes"} :
         disk' = [kind |-> kind, b |-> create_empty_baseline]
    /\ UNCHANGED <<today, slot, telegram, lifecycle, inflight, expiry_phase, scored>>

\* lines 547 and 949-953: load_baseline raises, scan() ends in the handler of
\* __main__ with a crash notice, and the file is left as it is
ScanCrashed ==
    /\ load_raises(disk)
    /\ slot < Len(Times(today))
    /\ slot' = slot + 1
    /\ UNCHANGED <<disk, today, telegram, lifecycle, inflight, expiry_phase, scored>>

CorruptNext ==
    \/ ScanStartupFailed
    \/ ScanOutsideWindow
    \/ ScanSpotFailed
    \/ ScanChainFailed
    \/ ScanRace
    \/ ScanCrashed
    \/ CorruptFile
    \/ NextDay

CorruptSpec == Init /\ [][CorruptNext]_vars

\* ---- malformed chain records ----
\* A chain record as the API returned it: form "ok", "no_option_type" (the
\* field is missing, or is neither CE nor PE) or "bad_oi" (the oi field is
\* missing, which pandas reads as NaN, or is not a number).
Forms == {"ok", "no_option_type", "bad_oi", "bad_vol"}
RawSnapshots ==
    [ Opts \X {50000} ->
        { [oi |-> q.oi, ltp |-> q.ltp, vol |-> q.vol, form |-> f] :
            q \in WideQuotes, f \in Forms } ]

\* lines 663 and 690: int(r.get("oi", 0)) raises ValueError on NaN and on
\* text that is not a number; the first loop meets the row before anything
\* is changed
row_raises(raw, atm) ==
    \E k \in DOMAIN FilterRows(raw, atm) : raw[k].form = "bad_oi"

\* lines 665-666 and 694-695: rows the loops pass over with continue
skipped_rows(raw) ==
    [ k \in { x \in DOMAIN raw : raw[x].form = "ok" }
      |-> [oi |-> raw[k].oi, ltp |-> raw[k].ltp, vol |-> raw[k].vol] ]

\* line 692: int(r.get("volume", 0)) raises ValueError on NaN; the first
\* loop does not read the volume, so the second loop meets the row after it
\* has processed the rows before it
loop_raises(raw, atm) ==
    \E k \in DOMAIN FilterRows(raw, atm) : raw[k].form = "bad_vol"

\* The rows the first loop reads (lines 660-680): strike, option type and OI.
prepass_rows(raw) ==
    [ k \in { x \in DOMAIN raw : raw[x].form \in {"ok", "bad_vol"} }
      |-> [oi |-> raw[k].oi, ltp |-> raw[k].ltp, vol |-> raw[k].vol] ]

\* The keys of the chain, in chain order, before the first row the second
\* loop cannot read.
RECURSIVE ProcessedBefore(_, _)
ProcessedBefore(order, raw) ==
    IF order = <<>> THEN <<>>
    ELSE IF order[1] \in DOMAIN raw /\ raw[order[1]].form = "bad_vol" THEN <<>>
    ELSE <<order[1]>> \o ProcessedBefore(Tail(order), raw)

\* The scan runs over the rows that are not passed over.
ScanRawWith(spot, raw) ==
    /\ ~row_raises(raw, Atm(spot))
    /\ ~loop_raises(raw, Atm(spot))
    /\ ScanWith(spot, skipped_rows(raw))

\* The ValueError of line 692 leaves scan() in the middle of the second
\* loop: the WATCH alerts of the rows before it are sent (line 732), the
\* record in memory is dropped, what was saved before the loops stays.
ScanLoopRaisedWith(spot, raw) ==
    /\ Tick
    /\ is_trading_window(Now)
    /\ get_monthly_expiry(today) >= 0
    /\ ~row_raises(raw, Atm(spot))
    /\ loop_raises(raw, Atm(spot))
    /\ \E b \in {WithDayOpen(spot)} :
         \E ctx \in {ScanContext(b, prepass_rows(raw), spot, Now,
                                 get_monthly_expiry(today))} :
           \E acc \in {MainLoop([ data |-> b.data,
                                   watch_today |-> b.watch_today,
                                   updated |-> FALSE,
                                   ce_buildups |-> <<>>,
                                   pe_buildups |-> <<>>,
                                   watch_sent |-> {},
                                   log |-> LifecycleAtStart ],
                                 ProcessedBefore(KeyOrder, FilterRows(raw, ctx.atm)),
                                 ctx)} :
             /\ disk' = DiskAfterDayOpen(spot)
             /\ telegram' =
                  [ TelegramAtStart EXCEPT
                      !.watch = [k \in Keys |-> @[k] + IF k \in acc.watch_sent
                                                        THEN 1 ELSE 0] ]
             /\ lifecycle' = LifecycleAtStart

\* The ValueError leaves scan() and ends in the handler of __main__ (lines
\* 949-953): what was saved before the loops stays, nothing else is.
ScanRowRaisedWith(spot, raw) ==
    /\ Tick
    /\ is_trading_window(Now)
    /\ get_monthly_expiry(today) >= 0
    /\ row_raises(raw, Atm(spot))
    /\ disk' = DiskAfterDayOpen(spot)
    /\ telegram' = TelegramAtStart
    /\ lifecycle' = LifecycleAtStart

ScanRaw == \E spot \in SpotVals, raw \in RawSnapshots : ScanRawWith(spot, raw)

ScanRowRaised == \E spot \in SpotVals, raw \in RawSnapshots : ScanRowRaisedWith(spot, raw)

ScanLoopRaised == \E spot \in SpotVals, raw \in RawSnapshots : ScanLoopRaisedWith(spot, raw)

RawNext ==
    \/ ScanOutsideWindow
    \/ ScanRaw
    \/ ScanRowRaised
    \/ ScanLoopRaised

RawSpec == Init /\ [][RawNext]_vars

\* ---- scans that fill the daily signal cap ----
\* In the specification CapSpec the two strikes carry the same quotes: one
\* quote for both CE rows and one for both PE rows, at 2200, at 2000 (9%
\* under) or at 6600 (three times 2200).
CapQuotes ==
    { [oi |-> 2000, ltp |-> 100, vol |-> 100],
      [oi |-> 2200, ltp |-> 100, vol |-> 100],
      [oi |-> 6600, ltp |-> 100, vol |-> 300] }
CapSnapshots ==
    { [k \in Keys |-> IF k[1] = "CE" THEN ce ELSE pe] : ce \in CapQuotes, pe \in CapQuotes }

ScanCap ==
    \E spot \in WideSpotVals, snapshot \in CapSnapshots : ScanWith(spot, snapshot)

CapNext ==
    \/ ScanOutsideWindow
    \/ ScanCap

CapSpec == Init /\ [][CapNext]_vars

\* ---- the signal selector on lists of scored buildups ----
\* The dispatch loop of scan() (lines 878-945) run on a list of buildups that
\* passed every gate; the specification SelSpec draws the lists from
\* CandidateLists.
MaxOffers == 3
CandScores == {90, 100, 105, 120}

Candidate(opt, s) ==
    [strike |-> 50000, opt_type |-> opt, conviction_score |-> s, tier |-> Tier(s)]

CandidateLists ==
    { <<Candidate("CE", s)>> : s \in CandScores }
    \cup { <<Candidate("CE", s1), Candidate("PE", s2)>> : s1 \in CandScores, s2 \in CandScores }

DispatchBuildups ==
    /\ slot < MaxOffers
    /\ slot' = slot + 1
    /\ today' = today
    /\ UNCHANGED <<inflight, expiry_phase, scored>>
    /\ \E buildups \in CandidateLists,
          start \in {[b |-> Started, disk |-> DiskAfterStartup,
                      telegram |-> TelegramAtStart, log |-> LifecycleAtStart]} :
         \E out \in {SendAlerts([b |-> start.b, updated |-> FALSE, sent |-> <<>>],
                                SortedDesc(buildups, "conviction_score"),
                                BN_ENTRY_TIME + slot)} :
            /\ disk' = IF out.updated THEN save_baseline(out.b) ELSE start.disk
            /\ telegram' = [start.telegram EXCEPT !.exec = @ \o out.sent]
            /\ lifecycle' = start.log

SelNext == DispatchBuildups

SelSpec == Init /\ [][SelNext]_vars

\* ---- the minimum score by conviction mode and expiry phase ----
\* CONVICTION_MODE is read from the environment when the module is loaded
\* (line 27); "TURBO" stands for a value that is not a key of
\* CONVICTION_THRESHOLDS.  The specification PhaseSpec draws the mode at
\* start and the days to expiry at each decision.
Modes == {"STRICT", "BALANCED", "AGGRESSIVE", "TURBO"}
MaxDaysToExpiry == 30

PhaseInit ==
    /\ disk = [kind |-> "absent", b |-> create_empty_baseline]
    /\ today = 1
    /\ slot = 0
    /\ telegram = NoAlerts
    /\ lifecycle = EmptyData
    /\ inflight = NoOverlap
    /\ \E mode \in Modes : expiry_phase = NoPhase(mode)
    /\ scored = NoScore

\* lines 614-626 with MIN_CONVICTION_SCORE_BASE of line 33
DecidePhase ==
    /\ \E days_to_expiry \in 0..MaxDaysToExpiry :
         expiry_phase' =
           [ mode |-> expiry_phase.mode,
             days_to_expiry |-> days_to_expiry,
             min_score |-> min_score_by_phase(CONVICTION_THRESHOLDS(expiry_phase.mode),
                                              days_to_expiry) ]
    /\ UNCHANGED <<disk, today, slot, telegram, lifecycle, inflight, scored>>

PhaseNext == DecidePhase

PhaseSpec == PhaseInit /\ [][PhaseNext]_vars

\* ---- the conviction score on its own ----
\* The specification ScoreSpec draws the arguments of
\* calculate_conviction_score at start and applies the function once.
\* Percentages are fractions: Frac(-60, 10000) is -0.6%.
ScoreAtms == {50000, 50200}
ScoreMoves ==
    {Frac(-60, 10000), Frac(-10, 10000), Frac(0, 1), Frac(10, 10000), Frac(60, 10000)}
ScoreChanges ==
    { EmptyData,
      [k \in Opts \X {49900, 50100, 50200} |-> Frac(150, 100)] }
ScoreBuildups ==
    [ strike : {50000},
      opt_type : Opts,
      oi_pct : {Frac(200, 100)},
      ltp_change : {Frac(-5, 100), Frac(10, 100)},
      vol_multiplier : {Frac(1, 1), Frac(3, 1)},
      opp_decline : {Frac(-10, 100), Frac(-2, 100)},
      decline_streak : {1, 3},
      buildup_time_mins : {0, 130},
      scan_count : {1, 3},
      spot_move : ScoreMoves,
      exec_threshold : {EXEC_OI_PCT} ]

ScoreInit ==
    /\ disk = [kind |-> "absent", b |-> create_empty_baseline]
    /\ today = 1
    /\ slot = 0
    /\ telegram = NoAlerts
    /\ lifecycle = EmptyData
    /\ inflight = NoOverlap
    /\ expiry_phase = NoPhase(CONVICTION_MODE)
    /\ \E bd \in ScoreBuildups, atm \in ScoreAtms, changes \in ScoreChanges :
         scored = [ bd |-> bd, atm |-> atm, changes |-> changes, done |-> FALSE,
                    score |-> 0, components |-> [spot_pts |-> 0] ]

\* lines 312-503
ComputeScore ==
    /\ ~scored.done
    /\ scored' = [ scored EXCEPT
                     !.done = TRUE,
                     !.score = calculate_conviction_score(scored.bd, scored.atm,
                                                          scored.changes),
                     !.components = conviction_components(scored.bd, scored.atm,
                                                          scored.changes) ]
    /\ UNCHANGED <<disk, today, slot, telegram, lifecycle, inflight, expiry_phase>>

ScoreNext == ComputeScore

ScoreSpec == ScoreInit /\ [][ScoreNext]_vars

\* ================= PROPERTIES =================
Data == disk.b.data

\* A step within one trading day: the stored record is for the same date
\* before and after.
SameDay == disk.kind = "ok" /\ disk'.kind = "ok" /\ disk.b.date = disk'.b.date

ExecAlerts(k) ==
    Cardinality({ i \in DOMAIN telegram.exec :
                    <<telegram.exec[i].opt_type, telegram.exec[i].strike>> = k })

OiPctOf(entry, oi) == Frac(oi - entry.base_oi, entry.base_oi)

\* C1: within one trading day the base_oi, base_ltp and base_vol of a tracked
\* contract never change, whatever later scans observe.
C1_BaselineFixed ==
    [][ SameDay =>
          \A k \in DOMAIN Data :
            /\ k \in DOMAIN Data'
            /\ Data'[k].base_oi = Data[k].base_oi
            /\ Data'[k].base_ltp = Data[k].base_ltp
            /\ Data'[k].base_vol = Data[k].base_vol ]_vars

\* A later scan observed an OI other than the baseline.
C1_Witness ==
    \E k \in DOMAIN Data : Data[k].prev_oi # Data[k].base_oi /\ Data[k].prev_oi = 6000

Rank(state) == CASE state = "NONE" -> 0 [] state = "WATCH" -> 1 [] state = "EXECUTED" -> 2

\* C2: the values a contract's state is given in a day are a prefix of
\* NONE, WATCH, EXECUTED, the stored state is the last of them, and across
\* scans of one day the state never moves back.
C2_LifecycleMonotonic ==
    /\ [](/\ DOMAIN lifecycle = DOMAIN Data
          /\ \A k \in DOMAIN Data :
               /\ lifecycle[k] \in { <<"NONE">>, <<"NONE", "WATCH">>,
                                     <<"NONE", "WATCH", "EXECUTED">> }
               /\ Data[k].state = lifecycle[k][Len(lifecycle[k])])
    /\ [][ SameDay =>
             \A k \in DOMAIN Data : Rank(Data'[k].state) >= Rank(Data[k].state) ]_vars

\* A contract went through WATCH to EXECUTED.
C2_Witness == \E k \in DOMAIN Data : Data[k].state = "EXECUTED"

\* C3: once a contract is EXECUTED, later scans of the day send no WATCH
\* alert and no execution alert for it, and a contract gets at most one
\* execution alert a day.
C3_ExecutedIsFinal ==
    /\ [](\A k \in Keys : ExecAlerts(k) <= 1)
    /\ [][ SameDay =>
             \A k \in DOMAIN Data :
               Data[k].state = "EXECUTED" =>
                 /\ telegram'.watch[k] = telegram.watch[k]
                 /\ \A i \in DOMAIN telegram'.exec :
                      i > Len(telegram.exec) =>
                        <<telegram'.exec[i].opt_type, telegram'.exec[i].strike>> # k ]_vars

\* An EXECUTED contract was scanned again: its OI fell back under the
\* execution threshold, which clears first_exec_time.
C3_Witness ==
    \E k \in DOMAIN Data :
      /\ Data[k].state = "EXECUTED"
      /\ ExecAlerts(k) = 1
      /\ Data[k].first_exec_time = None

\* C4: a contract whose base_oi is under MIN_BASE_OI stays NONE and gets no
\* alert, however large its OI change.
C4_BelowFloorStaysNone ==
    disk.kind = "ok" =>
      \A k \in DOMAIN Data :
        Data[k].base_oi < MIN_BASE_OI =>
          /\ Data[k].state = "NONE"
          /\ telegram.watch[k] = 0
          /\ ExecAlerts(k) = 0

\* A contract under the floor was last seen at +500%.
C4_Witness ==
    \E k \in DOMAIN Data :
      /\ Data[k].base_oi < MIN_BASE_OI
      /\ PctGE(OiPctOf(Data[k], Data[k].prev_oi), EXEC_OI_PCT * 100)

\* Both sides of the strike are tracked and, at the OI the scan just stored
\* in prev_oi, are at or past the conflict threshold against their baselines.
BothSidesReach(data, strike) ==
    /\ <<"CE", strike>> \in DOMAIN data
    /\ <<"PE", strike>> \in DOMAIN data
    /\ \A opt \in Opts :
         /\ data[<<opt, strike>>].base_oi > 0
         /\ PctGE(OiPctOf(data[<<opt, strike>>], data[<<opt, strike>>].prev_oi),
                  OI_BOTH_SIDES_AVOID * 100)

NewlyExecuted(k) ==
    /\ k \in DOMAIN Data'
    /\ Data'[k].state = "EXECUTED"
    /\ (k \in DOMAIN Data => Data[k].state # "EXECUTED")

NoExecutionAt(strike) ==
    /\ \A opt \in Opts : ~NewlyExecuted(<<opt, strike>>)
    /\ \A i \in DOMAIN telegram'.exec :
         i > Len(telegram.exec) => telegram'.exec[i].strike # strike

\* C5 as claimed: when both sides of a strike reach the conflict threshold
\* against their own baselines in a scan, nothing at the strike is executed
\* or alerted in that scan.
C5_Original ==
    [][ SameDay =>
          \A strike \in Strikes :
            BothSidesReach(Data', strike) => NoExecutionAt(strike) ]_vars

\* C5: the same, for two sides whose base_oi is each at least MIN_BASE_OI
\* (a side under the floor has no OI change recorded for the scan).
C5_ConflictSuppressesExecution ==
    [][ SameDay =>
          \A strike \in Strikes :
            ( /\ BothSidesReach(Data', strike)
              /\ \A opt \in Opts : Data'[<<opt, strike>>].base_oi >= MIN_BASE_OI )
            => NoExecutionAt(strike) ]_vars

\* A WATCH contract past the execution threshold whose opposite side, also
\* past the conflict threshold, has covered.
C5_Witness ==
    \E strike \in Strikes :
      /\ BothSidesReach(Data, strike)
      /\ \A opt \in Opts : Data[<<opt, strike>>].base_oi >= MIN_BASE_OI
      /\ \E opt \in Opts :
           /\ Data[<<opt, strike>>].state = "WATCH"
           /\ Data[<<opt, strike>>].prev_oi = 6000
           /\ Data[<<OppOpt(opt), strike>>].prev_oi = 5700
           /\ Data[<<opt, strike>>].scan_count >= 1

\* C6: a contract becomes EXECUTED in a scan only if the opposite side is
\* tracked, its OI in the scan is strictly under its previous_oi and the
\* decline against previous_oi is at least 1.5%.
C6_ExecutionNeedsCovering ==
    [][ SameDay =>
          \A k \in Keys :
            NewlyExecuted(k) =>
              LET opp == <<OppOpt(k[1]), k[2]>>
              IN /\ opp \in DOMAIN Data
                 /\ Data'[opp].prev_oi < Data[opp].prev_oi
                 /\ Data[opp].prev_oi > 0
                 /\ PctLE(Frac(Data'[opp].prev_oi - Data[opp].prev_oi, Data[opp].prev_oi),
                          MIN_DECLINE_PCT_H) ]_vars

\* A contract was executed on a covering opposite side, and one stayed
\* WATCH at the execution threshold.
C6_Witness ==
    \E k \in DOMAIN Data :
      /\ Data[k].state = "EXECUTED"
      /\ <<OppOpt(k[1]), k[2]>> \in DOMAIN Data
      /\ Data[<<OppOpt(k[1]), k[2]>>].decline_streak >= 1

QualifyingDecline(before, after) ==
    /\ after < before
    /\ before > 0
    /\ PctLE(Frac(after - before, before), MIN_DECLINE_PCT_H)

\* C7 as claimed: decline_streak counts the latest consecutive scans in which
\* the contract's OI declined against previous_oi by at least 1.5%: a scan in
\* which it so declined adds one, a scan in which it rose resets it to 0.
C7_StreakCountsDeclines ==
    [][ SameDay =>
          \A k \in DOMAIN Data :
            /\ QualifyingDecline(Data[k].prev_oi, Data'[k].prev_oi)
                 => Data'[k].decline_streak = Data[k].decline_streak + 1
            /\ Data'[k].prev_oi > Data[k].prev_oi
                 => Data'[k].decline_streak = 0 ]_vars

\* ---- the selector ----
Weakest(sigs) ==
    CHOOSE m \in { sigs[i].score : i \in DOMAIN sigs } :
      \A i \in DOMAIN sigs : m <= sigs[i].score

CountScore(sigs, field, v) == Cardinality({ i \in DOMAIN sigs : sigs[i][field] = v })

OfferOne(b, s) ==
    SendAlerts([b |-> b, updated |-> FALSE, sent |-> <<>>], <<Candidate("CE", s)>>, BN_ENTRY_TIME)

\* The selector's decision on score s against the stored record, with the
\* margin test given as the relation over (score, weakest + margin).
SelectorDecides(s, PastMargin(_, _)) ==
    LET b == disk.b
        at_cap == b.signals_today >= MAX_SIGNALS_PER_DAY
        accept == ~at_cap \/ PastMargin(s, Weakest(b.daily_signals) + SCORE_IMPROVEMENT_THRESHOLD)
        out == OfferOne(b, s)
    IN IF accept
       THEN /\ out.sent = <<Candidate("CE", s)>>
            /\ out.b.signals_today = b.signals_today + 1
            /\ at_cap =>
                 \A v \in CandScores :
                   CountScore(out.b.daily_signals, "score", v)
                     = CountScore(b.daily_signals, "score", v)
                       - (IF v = Weakest(b.daily_signals) THEN 1 ELSE 0)
                       + (IF v = s THEN 1 ELSE 0)
       ELSE out.sent = <<>> /\ out.b = b

StrictlyAbove(x, y) == x > y
AtLeast(x, y) == x >= y

\* C8 as claimed: a candidate is accepted exactly when the day's count is
\* under the cap or its score is at least the weakest accepted score plus
\* the margin.
C8_Original ==
    disk.kind = "ok" => \A s \in CandScores : SelectorDecides(s, AtLeast)

\* C8: a candidate is accepted exactly when the day's count is under the cap
\* or its score is strictly above the weakest accepted score plus the margin;
\* accepted at the cap it takes the place of one weakest entry; rejected, it
\* is not dispatched and nothing is recorded.
C8_SelectorAcceptance ==
    disk.kind = "ok" => \A s \in CandScores : SelectorDecides(s, StrictlyAbove)

\* The cap was reached and a later candidate replaced the weakest entry.
C8_Witness ==
    /\ disk.kind = "ok"
    /\ disk.b.signals_today > MAX_SIGNALS_PER_DAY
    /\ Len(telegram.exec) = disk.b.signals_today

\* C9: daily_signals holds at most MAX_SIGNALS_PER_DAY entries in descending
\* score order, and they are the highest scores of the execution signals
\* accepted so far in the day.
C9_DailySignalsTopScores ==
    disk.kind = "ok" =>
      LET sigs == disk.b.daily_signals
          accepted == telegram.exec
          Higher(v) == Cardinality({ i \in DOMAIN accepted :
                                       accepted[i].conviction_score > v })
          Room(v) == IF MAX_SIGNALS_PER_DAY > Higher(v)
                     THEN MAX_SIGNALS_PER_DAY - Higher(v) ELSE 0
          Have(v) == CountScore(accepted, "conviction_score", v)
      IN /\ Len(sigs) <= MAX_SIGNALS_PER_DAY
         /\ \A i \in 1..(Len(sigs) - 1) : sigs[i].score >= sigs[i + 1].score
         /\ \A v \in CandScores \cup { sigs[i].score : i \in DOMAIN sigs } :
              CountScore(sigs, "score", v)
                = IF Have(v) < Room(v) THEN Have(v) ELSE Room(v)

\* More signals were accepted than daily_signals holds, the last of them
\* above an earlier one.
C9_Witness ==
    /\ Len(telegram.exec) > MAX_SIGNALS_PER_DAY
    /\ telegram.exec[Len(telegram.exec)].conviction_score > telegram.exec[1].conviction_score

\* ---- reset_day ----
FreshDay(d) ==
    [ date |-> d, started |-> FALSE, day_open |-> None, data |-> EmptyData,
      signals_today |-> 0, watch_today |-> 0, daily_signals |-> <<>> ]

\* C10: reset_day resets the loaded record exactly when its date is not
\* today: it then clears contracts, counters, daily_signals, day_open and
\* started, stores today's date and saves; on today's record it changes
\* nothing and saves nothing, so a scan that stops right after it leaves the
\* file as it was.
C10_ResetDay ==
    /\ [](LET b == load_baseline(disk)
              r == reset_day(b, today)
          IN /\ b.date # today => r = FreshDay(today)
             /\ b.date = today => r = b
             /\ reset_day(r, today) = r)
    /\ [][ ScanStartupFailed =>
             IF load_baseline(disk).date # today
             THEN disk' = save_baseline(FreshDay(today))
             ELSE disk' = disk ]_vars
    /\ [][ ScanOutsideWindow =>
             IF load_baseline(disk).date # today
             THEN disk' = save_baseline([FreshDay(today) EXCEPT !.started = TRUE])
             ELSE disk'.b = [disk.b EXCEPT !.started = TRUE] ]_vars

\* Contracts are tracked on the second day: the first day's record was reset
\* and the new day's record reloaded by later scans.
C10_Witness ==
    /\ today = 2
    /\ disk.b.date = 2
    /\ DOMAIN Data # {}

\* ---- aborted scans ----
\* The spot fetch (for the startup ping or for the scan) or the chain fetch
\* failed.
FetchFailed == ScanStartupFailed \/ ScanSpotFailed \/ ScanChainFailed

\* C11 as claimed: a scan whose spot or chain fetch fails leaves the stored
\* record exactly as it was before the scan.
C11_Original == [][ FetchFailed => disk' = disk ]_vars

\* C11: a scan whose spot or chain fetch fails sends no alert and writes
\* nothing but what the steps before the failed fetch write: the day reset
\* when the stored date is not today, started after a startup ping, and
\* day_open when none was stored and the spot fetch succeeded.  Contracts,
\* counters and daily_signals are those of the record after reset_day, so
\* within a day they are untouched; a record of today that is started and has
\* a day_open is left exactly as it was.
C11_AbortedScanWrites ==
    [][ FetchFailed =>
          LET b == load_baseline(disk)
              r == reset_day(b, today)
          IN /\ telegram' = (IF b.date # today THEN NoAlerts ELSE telegram)
             /\ disk' # disk =>
                   /\ disk'.kind = "ok"
                   /\ [disk'.b EXCEPT !.started = r.started, !.day_open = r.day_open] = r
                   /\ r.started => disk'.b.started
                   /\ r.day_open # None => disk'.b.day_open = r.day_open
             /\ (b.date = today /\ b.started /\ b.day_open # None) => disk' = disk ]_vars

\* A fetch failed in a scan of a day with a tracked contract: the only
\* contract ever in the chain crossed the execution threshold at 10:30, and
\* the 11:00 scan, had it read the chain, would have counted or cleared it.
C11_Witness ==
    /\ disk.kind = "ok"
    /\ today = 1
    /\ slot = 4
    /\ DOMAIN Data = {<<"CE", 50000>>}
    /\ Data[<<"CE", 50000>>].first_exec_time = 630
    /\ Data[<<"CE", 50000>>].scan_count = 1

\* ---- one scan seen with its inputs ----
\* The step is an invocation inside the trading window that stored a record.
ScanStep ==
    /\ disk'.kind = "ok"
    /\ slot < Len(Times(today))
    /\ slot' = slot + 1
    /\ is_trading_window(Now)

\* The step is a scan that read spot and snapshot.  The cheap tests come
\* before the scan itself: the stored previous_oi of the rows in range are
\* the snapshot's OI, and a stored contract with no row is one the step found
\* and left untouched.
Scanned(spot, snapshot) ==
    /\ \A k \in DOMAIN snapshot :
         (Abs(k[2] - Atm(spot)) <= STRIKE_RANGE /\ k[2] % 100 = 0) =>
           (k \in DOMAIN Data' /\ Data'[k].prev_oi = snapshot[k].oi)
    /\ \A k \in DOMAIN Data' :
         k \in DOMAIN snapshot \/ (k \in DOMAIN Data /\ Data'[k] = Data[k])
    /\ ScanWith(spot, snapshot)

\* WATCH alerts the step sent to keys before k in chain order.
WatchSentBefore(k) ==
    Cardinality({ i \in DOMAIN KeyOrder :
                    /\ \E j \in DOMAIN KeyOrder : KeyOrder[j] = k /\ i < j
                    /\ telegram'.watch[KeyOrder[i]] > TelegramAtStart.watch[KeyOrder[i]] })

\* C12: a NONE contract that reaches the watch threshold in a scan leaves
\* NONE in that scan whether or not its WATCH alert is sent; the alert is
\* withheld exactly when the strike is conflicted, the strike is more than
\* 150 points from the ATM or watch_today has reached MAX_WATCH_PER_DAY, and
\* then watch_today does not count it; a contract that has left NONE gets no
\* WATCH alert in later scans of the day.  (That such a contract still goes
\* on to EXECUTED is C12_Witness.)
C12_SilentWatch ==
    /\ [][ \A spot \in WideSpotVals, snapshot \in WideSnapshots :
             Scanned(spot, snapshot) =>
               LET b == Started
                   rows == FilterRows(snapshot, Atm(spot))
                   changes == strike_oi_changes(b.data, rows)
                   Reaches(k) == /\ k \in DOMAIN b.data
                                 /\ b.data[k].state = "NONE"
                                 /\ b.data[k].base_oi >= MIN_BASE_OI
                                 /\ PctGE(OiPctOf(b.data[k], rows[k].oi), WATCH_OI_PCT * 100)
                   Suppressed(k) == \/ /\ PctGE(ChangeOf(changes, "CE", k[2]),
                                                OI_BOTH_SIDES_AVOID * 100)
                                       /\ PctGE(ChangeOf(changes, "PE", k[2]),
                                                OI_BOTH_SIDES_AVOID * 100)
                                    \/ Abs(k[2] - Atm(spot)) > 150
                                    \/ b.watch_today + WatchSentBefore(k) >= MAX_WATCH_PER_DAY
               IN /\ \A k \in DOMAIN rows :
                       Reaches(k) =>
                         /\ Data'[k].state \in {"WATCH", "EXECUTED"}
                         /\ telegram'.watch[k] = IF Suppressed(k) THEN 0 ELSE 1
                  /\ disk'.b.watch_today =
                       b.watch_today
                       + Cardinality({ k \in Keys :
                                         telegram'.watch[k] > TelegramAtStart.watch[k] }) ]_vars
    /\ [][ SameDay =>
             \A k \in DOMAIN Data :
               Data[k].state # "NONE" => telegram'.watch[k] = telegram.watch[k] ]_vars

\* A contract whose WATCH alert the daily cap withheld was executed: PE 50100
\* first crossed the thresholds in the 11:00 scan, with the CE side back at
\* its baseline (no conflict) and the spot moved off a 49900 open to 50100
\* (the ATM), after three WATCH alerts to other contracts.
C12_Witness ==
    /\ disk.kind = "ok"
    /\ disk.b.day_open = 49900
    /\ disk.b.watch_today = MAX_WATCH_PER_DAY
    /\ DOMAIN Data = Keys
    /\ Data[<<"PE", 50100>>].state = "EXECUTED"
    /\ Data[<<"PE", 50100>>].first_exec_time = 660
    /\ Data[<<"PE", 50100>>].base_oi = 2000
    /\ Data[<<"CE", 50100>>].base_oi = 2000
    /\ Data[<<"CE", 50100>>].prev_oi = 2000
    /\ telegram.watch[<<"PE", 50100>>] = 0
    /\ ExecAlerts(<<"PE", 50100>>) = 1

\* ---- the execution gates, from the scan's inputs ----
\* What the rows of a scan are judged against, for a scan of the current
\* state that read spot and snapshot.
ContextOf(spot, snapshot) ==
    ScanContext(WithDayOpen(spot), snapshot, spot, Now, get_monthly_expiry(today))

\* The gates of the execution step for key k, one by one, for an entry e of
\* the record b in memory when the main loop starts, under ctx.
GateThreshold(e, r) == PctGE(OiPctOf(e, r.oi), EXEC_OI_PCT * 100)
GatePremium(e, r, ctx) ==
    e.base_ltp > 0 => PctLE(Frac(r.ltp - e.base_ltp, e.base_ltp), ctx.tolerance * 100)
GateEntryTime(ctx) == ctx.now >= BN_ENTRY_TIME
GateSpotMove(ctx) == PctGE(Frac(Abs(ctx.spot_move.num), ctx.spot_move.den), SPOT_MOVE_PCT_H)
GateVolume(e, r) == e.base_vol > 0 => r.vol * 10 >= VOL_MULTIPLIER_X10 * e.base_vol
GateNoConflict(k, ctx) ==
    ~ ( /\ PctGE(ChangeOf(ctx.changes, "CE", k[2]), OI_BOTH_SIDES_AVOID * 100)
        /\ PctGE(ChangeOf(ctx.changes, "PE", k[2]), OI_BOTH_SIDES_AVOID * 100) )
GateCovering(b, k, ctx) ==
    LET opp == <<OppOpt(k[1]), k[2]>>
    IN /\ opp \in DOMAIN b.data
       /\ opp \in DOMAIN ctx.rows
       /\ ctx.rows[opp].oi # 0
       /\ QualifyingDecline(b.data[opp].prev_oi, ctx.rows[opp].oi)
\* The conviction score of the candidate, given that the covering gate passed.
ScoreOf(b, k, ctx) ==
    LET e == b.data[k]
        r == ctx.rows[k]
        opp == b.data[<<OppOpt(k[1]), k[2]>>]
        opp_oi == ctx.rows[<<OppOpt(k[1]), k[2]>>].oi
        tracked == track_buildup(e, TRUE, ctx.now)
    IN calculate_conviction_score(
         [ strike |-> k[2],
           opt_type |-> k[1],
           oi_pct |-> OiPctOf(e, r.oi),
           ltp_change |-> IF e.base_ltp > 0 THEN Frac(r.ltp - e.base_ltp, e.base_ltp)
                          ELSE Frac(0, 1),
           vol_multiplier |-> IF e.base_vol > 0 THEN Frac(r.vol, e.base_vol) ELSE Frac(1, 1),
           opp_decline |-> Frac(opp_oi - opp.prev_oi, opp.prev_oi),
           decline_streak |-> opp.decline_streak + 1,
           buildup_time_mins |-> calculate_buildup_time(tracked, ctx.now),
           scan_count |-> tracked.scan_count,
           spot_move |-> ctx.spot_move,
           exec_threshold |-> EXEC_OI_PCT ],
         ctx.atm, ctx.changes)
GateScore(b, k, ctx) == ScoreOf(b, k, ctx) >= ctx.min_score

AllGatesPass(b, k, ctx) ==
    /\ GateThreshold(b.data[k], ctx.rows[k])
    /\ GatePremium(b.data[k], ctx.rows[k], ctx)
    /\ GateEntryTime(ctx)
    /\ GateSpotMove(ctx)
    /\ GateVolume(b.data[k], ctx.rows[k])
    /\ GateNoConflict(k, ctx)
    /\ GateCovering(b, k, ctx)
    /\ GateScore(b, k, ctx)

\* A tracked NONE contract with base_oi at or above the floor whose row r
\* puts its OI% at or past the watch threshold.
ReachesWatch(data, k, r) ==
    /\ k \in DOMAIN data
    /\ data[k].state = "NONE"
    /\ data[k].base_oi >= MIN_BASE_OI
    /\ PctGE(OiPctOf(data[k], r.oi), WATCH_OI_PCT * 100)

\* C13: a tracked NONE contract with base_oi at or above the floor whose OI%
\* reaches the watch threshold in a scan is given the state WATCH in that
\* scan; if its OI% in that scan also reaches the execution threshold and
\* every other execution gate passes, it is given EXECUTED after WATCH in the
\* same scan and a candidate for it goes to the selector.
C13_WatchAndExecuteInOneScan ==
    [][ \A spot \in SpotVals, snapshot \in Snapshots \ {EmptyData} :
          ( /\ SameDay
            /\ \E k \in DOMAIN snapshot : ReachesWatch(Data, k, snapshot[k])
            /\ Scanned(spot, snapshot) ) =>
            \E b \in {WithDayOpen(spot)}, ctx \in {ContextOf(spot, snapshot)} :
              \A k \in DOMAIN ctx.rows :
                ReachesWatch(b.data, k, ctx.rows[k])
                => /\ LifecycleAtStart[k] = <<"NONE">>
                   /\ IF AllGatesPass(b, k, ctx)
                      THEN /\ lifecycle'[k] = <<"NONE", "WATCH", "EXECUTED">>
                           /\ Data'[k].state = "EXECUTED"
                           /\ ExecAlerts(k)' = 1
                      ELSE /\ lifecycle'[k] = <<"NONE", "WATCH">>
                           /\ Data'[k].state = "WATCH" ]_vars

\* A contract went from NONE to EXECUTED in the scan in which it first
\* crossed the thresholds: the 10:30 scan, the first after the entry time,
\* with the contract's baseline taken at 10:00.
C13_Witness ==
    \E k \in DOMAIN Data :
      /\ today = 1
      /\ slot = 3
      /\ Data[k].state = "EXECUTED"
      /\ Data[k].first_exec_time = 630
      /\ Data[k].scan_count = 1
      /\ lifecycle[k] = <<"NONE", "WATCH", "EXECUTED">>

\* ---- overlapping scans ----
\* C14 as claimed: overlapping scans leave what some serial order of them
\* leaves.  In every serial run a contract gets at most one execution alert
\* and at most one WATCH alert a day, signals_today counts the execution
\* alerts sent and watch_today the WATCH alerts sent; so the same holds of
\* runs with an overlapping scan.
C14_OverlapIsSerial ==
    disk.kind = "ok" =>
      /\ \A k \in Keys : ExecAlerts(k) <= 1 /\ telegram.watch[k] <= 1
      /\ disk.b.signals_today = Len(telegram.exec)
      /\ disk.b.watch_today = Cardinality({ k \in Keys : telegram.watch[k] = 1 })

\* ---- a damaged baseline file ----
\* C15 as claimed: an invocation that finds a file it cannot deserialize does
\* not fail: it goes on with the freshly initialized record stamped with
\* today's date, as if the file were absent, and stores it.
C15_CorruptFallsBackToFresh ==
    [][ (disk.kind \in {"bad_json", "bad_bytes"} /\ slot' = slot + 1) =>
          /\ disk'.kind = "ok"
          /\ disk'.b.date = today
          /\ disk'.b.signals_today = 0
          /\ disk'.b.daily_signals = <<>>
          /\ \A k \in DOMAIN Data' : Data'[k].state = "NONE" ]_vars

\* The part of C15 the code keeps: a file that is text but not JSON.
C15_BadJsonFallsBackToFresh ==
    [][ (disk.kind = "bad_json" /\ slot' = slot + 1) =>
          /\ disk'.kind = "ok"
          /\ disk'.b.date = today
          /\ disk'.b.signals_today = 0
          /\ disk'.b.daily_signals = <<>>
          /\ \A k \in DOMAIN Data' : Data'[k].state = "NONE" ]_vars

\* ---- malformed chain records ----
\* Every well-formed row of the chain was processed by the step: its contract
\* is tracked and its previous_oi is the row's OI.
WellFormedProcessed(spot, raw) ==
    /\ disk'.kind = "ok"
    /\ \A k \in DOMAIN FilterRows(skipped_rows(raw), Atm(spot)) :
         /\ k \in DOMAIN Data'
         /\ Data'[k].prev_oi = raw[k].oi

\* C16 as claimed: a scan whose chain has a malformed record (a missing
\* option type, a missing or non-numeric OI) passes over that record and
\* processes every well-formed record of the chain, and its changes are
\* stored.
C16_MalformedRecordSkipped ==
    [][ \A spot \in SpotVals, raw \in RawSnapshots :
          ( /\ \E k \in DOMAIN raw : raw[k].form # "ok"
            /\ ScanRawWith(spot, raw) \/ ScanRowRaisedWith(spot, raw) )
          => WellFormedProcessed(spot, raw) ]_vars

\* The part of C16 the code keeps: a record without a usable option type is
\* passed over and the other records are processed.
C16_NoOptionTypeSkipped ==
    [][ \A spot \in SpotVals, raw \in RawSnapshots :
          ( /\ \E k \in DOMAIN raw : raw[k].form = "no_option_type"
            /\ \A k \in DOMAIN raw : raw[k].form # "bad_oi"
            /\ ScanRawWith(spot, raw) )
          => WellFormedProcessed(spot, raw) ]_vars

\* ---- day_open ----
\* The invocation fetched the spot successfully at least once: for the
\* startup ping of a record not yet started, or for the scan proper.
SpotFetchSucceeded ==
    \/ ScanOutsideWindow /\ ~Migrated.started
    \/ ScanSpotFailed /\ ~Migrated.started
    \/ ScanChainFailed

\* C17 as claimed: day_open is captured from the first successful spot fetch
\* of the trading day, so a record has a day_open once an invocation has
\* fetched the spot.
C17_Original == [][ SpotFetchSucceeded => disk'.b.day_open # None ]_vars

\* C17: day_open is captured from the first successful spot fetch made inside
\* the trading window (line 577); the spot fetched for the startup ping is
\* not used, and an invocation that stops before line 577 succeeds leaves
\* day_open as it was.  Once set, day_open is not changed by any later scan
\* of the day.
C17_DayOpenCapturedOnce ==
    /\ [][ (SameDay /\ disk.b.day_open # None) => disk'.b.day_open = disk.b.day_open ]_vars
    /\ [][ (ScanStartupFailed \/ ScanOutsideWindow \/ ScanSpotFailed) =>
             disk'.b.day_open = AfterReset.day_open ]_vars
    /\ [][ \A spot \in SpotVals :
             (AfterReset.day_open = None /\ ScanChainFailedWith(spot)) =>
               disk'.b.day_open = spot ]_vars
    /\ [][ \A spot \in SpotVals, snapshot \in Snapshots \ {EmptyData} :
             (AfterReset.day_open = None /\ Scanned(spot, snapshot)) =>
               disk'.b.day_open = spot ]_vars

\* A day_open of 49800 was kept through a later scan at another spot: a
\* contract was executed, which needs the spot at least 0.3% off the open.
C17_Witness ==
    /\ disk.kind = "ok"
    /\ disk.b.day_open = 49800
    /\ \E k \in DOMAIN Data : Data[k].state = "EXECUTED"

\* ---- a failed execution gate ----
\* The contract is WATCH when the execution step looks at it: it was WATCH
\* when the scan began or has just reached the watch threshold.
WatchAtExecution(data, k, r) ==
    /\ k \in DOMAIN data
    /\ data[k].base_oi >= MIN_BASE_OI
    /\ data[k].state = "WATCH" \/ ReachesWatch(data, k, r)

MidCycle(days_to_expiry) == days_to_expiry > 10 /\ days_to_expiry <= 20

\* The minimum a mode applies at some number of days to expiry.
MinScoreIn(mode, days_to_expiry) ==
    min_score_by_phase(CONVICTION_THRESHOLDS(mode), days_to_expiry)

\* C19: in every conviction mode the minimum score applied in the mid-cycle
\* window (11 to 20 days to expiry) is no higher than the minimum applied at
\* any other number of days to expiry.
C19_MidCycleLoosest ==
    (expiry_phase.days_to_expiry >= 0 /\ MidCycle(expiry_phase.days_to_expiry)) =>
      \A d \in 0..MaxDaysToExpiry :
        expiry_phase.min_score <= MinScoreIn(expiry_phase.mode, d)

\* The same in every mode but STRICT, where it holds.
C19_MidCycleLoosestUnlessStrict ==
    ( /\ expiry_phase.mode # "STRICT"
      /\ expiry_phase.days_to_expiry >= 0
      /\ MidCycle(expiry_phase.days_to_expiry) ) =>
      \A d \in 0..MaxDaysToExpiry :
        expiry_phase.min_score <= MinScoreIn(expiry_phase.mode, d)

\* ---- tracking of the time spent above the execution threshold ----
\* The tracking rule of one scan for key k, row r of the chain and the entry
\* old the scan found (or created) for k.
TrackedAsStated(old, r, k) ==
    \E above \in {PctGE(OiPctOf(old, r.oi), EXEC_OI_PCT * 100)} :
      /\ (above /\ old.first_exec_time = None) =>
           Data'[k].first_exec_time = Now /\ Data'[k].scan_count = 1
      /\ (above /\ old.first_exec_time # None) =>
           /\ Data'[k].first_exec_time = old.first_exec_time
           /\ Data'[k].scan_count = old.scan_count + 1
      /\ ~above =>
           Data'[k].first_exec_time = None /\ Data'[k].scan_count = 0

\* The entry a scan works on for key k: the stored one, or the one it creates
\* from the row.
EntryFor(b, k, r) == IF k \in DOMAIN b.data THEN b.data[k] ELSE new_entry(r)

\* C20 as stated: in every scan, for every tracked contract that the chain
\* quotes, whatever its state and baseline, first_exec_time and scan_count
\* follow the tracking rule.
C20_Original ==
    [][ ScanStep => \A spot \in SpotVals, snapshot \in Snapshots \ {EmptyData} :
          Scanned(spot, snapshot) =>
            \E b \in {WithDayOpen(spot)} :
              \A k \in DOMAIN snapshot :
                k \in DOMAIN Data' /\ TrackedAsStated(EntryFor(b, k, snapshot[k]), snapshot[k], k)
      ]_vars

\* C20: in every scan that gets as far as the option chain, for every
\* contract in any state (EXECUTED included) that has a row in the scan's
\* filtered chain and a baseline OI of at least MIN_BASE_OI, first_exec_time
\* and scan_count follow the tracking rule and those of the contracts without
\* a row are kept; within a day they change only in a scan inside the trading
\* window, by a reset or by one more scan counted; and scan_count is 0
\* exactly when first_exec_time is unset.
C20_TrackingRule ==
    /\ [][ ScanStep => \A spot \in SpotVals, snapshot \in Snapshots \ {EmptyData} :
             Scanned(spot, snapshot) =>
               \E b \in {WithDayOpen(spot)}, rows \in {FilterRows(snapshot, Atm(spot))} :
                 /\ \A k \in DOMAIN rows :
                      EntryFor(b, k, rows[k]).base_oi >= MIN_BASE_OI =>
                        /\ k \in DOMAIN Data'
                        /\ TrackedAsStated(EntryFor(b, k, rows[k]), rows[k], k)
                 /\ \A k \in DOMAIN b.data \ DOMAIN rows :
                      /\ Data'[k].first_exec_time = b.data[k].first_exec_time
                      /\ Data'[k].scan_count = b.data[k].scan_count
         ]_vars
    /\ [][ SameDay =>
             \A k \in DOMAIN Data :
               \/ /\ Data'[k].first_exec_time = Data[k].first_exec_time
                  /\ Data'[k].scan_count = Data[k].scan_count
               \/ /\ is_trading_window(Now)
                  /\ \/ Data'[k].first_exec_time = None /\ Data'[k].scan_count = 0
                     \/ /\ Data'[k].scan_count = Data[k].scan_count + 1
                        /\ Data'[k].first_exec_time =
                             IF Data[k].first_exec_time = None THEN Now
                             ELSE Data[k].first_exec_time ]_vars
    /\ [](\A k \in DOMAIN Data :
            (Data[k].scan_count = 0) <=> (Data[k].first_exec_time = None))

\* An executed contract whose OI stayed above the execution threshold in the
\* scan after its execution: the count went on to 2.
C20_Witness ==
    \E k \in DOMAIN Data :
      /\ Data[k].state = "EXECUTED"
      /\ Data[k].first_exec_time = 630
      /\ Data[k].scan_count = 2

\* ---- previous_oi ----
\* An invocation from this state gets as far as the option chain.
CanScan ==
    /\ ~load_raises(disk)
    /\ slot < Len(Times(today))
    /\ is_trading_window(Now)
    /\ get_monthly_expiry(today) >= 0

SumOfComponents(c) ==
    c.strike_quality_pts + c.volume_pts + c.velocity_pts + c.decline_pts
    + c.decline_streak_pts + c.spot_pts + c.sustainability_pts + c.cluster_pts
    + c.premium_behavior_pts

\* C22: the score returned by calculate_conviction_score is the sum of its
\* nine components and is never above 190.
C22_ScoreAtMost190 ==
    scored.done =>
      /\ scored.score = SumOfComponents(scored.components)
      /\ scored.score <= 190

\* The score is the sum of the nine components and is never above 200, the
\* sum of their maxima (30 + 20 + 25 + 25 + 20 + 30 + 15 + 20 + 15).
C22_ScoreAtMost200 ==
    scored.done =>
      /\ scored.score = SumOfComponents(scored.components)
      /\ scored.score <= 200

\* Every component at its maximum: a score of 200.
C22_FullScore == scored.done /\ scored.score = 200

\* ---- the spot-alignment component ----
\* The spot moved the way the buildup bets: down for a CE buildup (bearish),
\* up for a PE buildup (bullish).
SpotAligned(opt, move) ==
    \/ opt = "CE" /\ move.num < 0
    \/ opt = "PE" /\ move.num > 0

InvokedOutsideWindow ==
    /\ slot < Len(Times(today))
    /\ slot' = slot + 1
    /\ Now < TIME_FILTER_START \/ Now > TIME_FILTER_END

InvokedBeforeEntry ==
    /\ slot < Len(Times(today))
    /\ slot' = slot + 1
    /\ Now < BN_ENTRY_TIME

\* The step made no contract EXECUTED and sent no execution alert.
NothingExecuted ==
    /\ \A k \in DOMAIN Data' :
         Data'[k].state = "EXECUTED" =>
           (SameDay /\ k \in DOMAIN Data /\ Data[k].state = "EXECUTED")
    /\ telegram'.exec = TelegramAtStart.exec
    /\ disk'.b.signals_today = (IF SameDay THEN disk.b.signals_today ELSE 0)

\* The step changed no contract, no counter and sent no alert.
NothingTouched ==
    /\ Data' = Data
    /\ disk'.b.watch_today = disk.b.watch_today
    /\ disk'.b.signals_today = disk.b.signals_today
    /\ disk'.b.daily_signals = disk.b.daily_signals
    /\ telegram' = telegram
    /\ lifecycle' = lifecycle

\* C24 as stated: an invocation outside the trading window changes no
\* contract state, counter or prev_oi and sends no alert.
C24_Original ==
    [][ InvokedOutsideWindow => NothingTouched ]_vars

\* C24: no contract becomes EXECUTED and no execution alert is sent in an
\* invocation before the entry time or outside the trading window; an
\* invocation outside the trading window changes no contract, counter or
\* prev_oi and sends no alert when the stored record is of today, and when it
\* is of another day (or there is none) it stores the empty record of today:
\* no contracts, counters at zero.  (That a scan inside the window and before
\* the entry time moves a contract from NONE to WATCH is C24_Witness.)
C24_TimeGates ==
    /\ [][ (InvokedOutsideWindow \/ InvokedBeforeEntry) => NothingExecuted ]_vars
    /\ [][ InvokedOutsideWindow =>
             IF load_baseline(disk).date = today
             THEN NothingTouched
             ELSE /\ Data' = EmptyData
                  /\ disk'.b.watch_today = 0
                  /\ disk'.b.signals_today = 0
                  /\ disk'.b.daily_signals = <<>>
                  /\ telegram' = NoAlerts
                  /\ lifecycle' = EmptyData ]_vars

\* A contract went from NONE to WATCH, with its alert, in the 10:05 scan of
\* an even day: inside the window, before the entry time.
C24_Witness ==
    \E k \in DOMAIN Data :
      /\ today = 2
      /\ slot = 3
      /\ Data[k].state = "WATCH"
      /\ lifecycle[k] = <<"NONE", "WATCH">>
      /\ telegram.watch[k] = 1

\* ---- the WATCH counter ----
RECURSIVE SumOver(_, _)
SumOver(f, S) ==
    IF S = {} THEN 0
    ELSE LET x == CHOOSE y \in S : TRUE IN f[x] + SumOver(f, S \ {x})

\* WATCH notifications sent for the stored date.
WatchSent == SumOver(telegram.watch, Keys)

\* C25: after any sequence of scans in a day, watch_today is at most
\* MAX_WATCH_PER_DAY, it is the number of WATCH notifications sent that day,
\* and no contract key got more than one WATCH notification that day.
C25_WatchCounter ==
    /\ disk.b.watch_today <= MAX_WATCH_PER_DAY
    /\ disk.b.watch_today = WatchSent
    /\ \A k \in Keys : telegram.watch[k] <= 1

\* ---- executed contracts and the signal selector ----
\* The step made k EXECUTED.
BecomesExecuted(k) ==
    /\ k \in DOMAIN Data'
    /\ Data'[k].state = "EXECUTED"
    /\ ~(SameDay /\ k \in DOMAIN Data /\ Data[k].state = "EXECUTED")

C27_ExecutionCounter ==
    /\ [](disk.kind = "ok" =>
            /\ disk.b.signals_today = Len(telegram.exec)
            /\ Len(disk.b.daily_signals)
                 = IF disk.b.signals_today < MAX_SIGNALS_PER_DAY
                   THEN disk.b.signals_today ELSE MAX_SIGNALS_PER_DAY)
    /\ [][ (SameDay /\ disk.b.signals_today >= MAX_SIGNALS_PER_DAY) =>
             Weakest(disk'.b.daily_signals) >= Weakest(disk.b.daily_signals) ]_vars

\* A replacement was dispatched past the cap and the weakest stored score is
\* now above the score of an alert sent earlier in the day.
C27_Witness ==
    /\ disk.kind = "ok"
    /\ disk.b.signals_today = MAX_SIGNALS_PER_DAY + 1
    /\ Len(disk.b.daily_signals) = MAX_SIGNALS_PER_DAY
    /\ \E i \in DOMAIN telegram.exec :
         telegram.exec[i].conviction_score < Weakest(disk.b.daily_signals)

====
